---- MODULE Spec2Model ----
(***************************************************************************)
(* Model of the face-recognition service of src/face-service/main.py:      *)
(* the SessionStore with its cleanup thread, the JobStore, the background  *)
(* batch processor and the request handlers that run on the event loop.    *)
(*                                                                         *)
(* Threads.  The request handlers are `async def` without any await, so    *)
(* they run one at a time on the event loop.  process_batch_background is  *)
(* a plain `def` handed to BackgroundTasks, so it runs on a thread of the  *)
(* thread pool; cleanup_worker runs on its own daemon thread.  No lock is   *)
(* taken anywhere, so a thread switch can fall between any two attribute   *)
(* reads or writes: every attribute write of a JobStore method and every   *)
(* attribute read of get_job_status is a step of its own.                  *)
(*                                                                         *)
(* Time is a counter of ticks of HoursPerTick hours.  Distances are in     *)
(* hundredths (0.7 is 70).  An image is modelled by what the oracle        *)
(* (PIL + face_recognition) answers for it.                                *)
(***************************************************************************)
EXTENDS Integers, Sequences, FiniteSets, TLC

VARIABLES
    now,        \* datetime.now(), in ticks
    sessions,   \* SessionStore.sessions: session id -> SessionData
    cleanup,    \* the cleanup_worker thread: position and locals
    jobs,       \* JobStore.jobs: job id -> JobStatus
    bp,         \* the process_batch_background task of each job
    loop,       \* the event loop: the handler being run and its response
    polled,     \* per job, what the last job-status response showed
    call,       \* the last store method called directly (method, argument, result)
    lostSession \* history: the jobs whose session left the store between the
                \* acceptance of the request and the retrieve of the task

vars == <<now, sessions, cleanup, jobs, bp, loop, polled, call, lostSession>>

----------------------------------------------------------------------------
(* Bounds of the model *)

MaxImages == 2
MaxExpiryImages == 1
MaxTicks == 2
HoursPerTick == 24

(* Program constants *)

SessionTTL == 24
MatchThreshold == 70

\* The session ids of the calls made on the SessionStore, and the one the
\* requests of the service name.
SessionIds == {"s1", "s2"}
RequestSessionIds == {"s1"}

\* The ids create_job hands out (uuid4 in the code).  The service is explored
\* with one job: a task reads and writes the JobStatus of its own job_id only,
\* and no handler writes a JobStatus after create_job.
JobIds == {1}

\* Reference embeddings a registration can store (numbers, compared by their
\* difference); RequestEncodings is what the registrations of Spec store.
\* NoEncoding stands for None.
Encodings == {0, 20}
RequestEncodings == {0}
NoEncoding == -1

\* What the oracle answers for one image: decoding or detection raises
\* (ok = FALSE), or the embeddings of the faces found (none, one, several).
BadImage == [ok |-> FALSE, faces |-> <<>>]
NoFaceImage == [ok |-> TRUE, faces |-> <<>>]
Images ==
    { BadImage, NoFaceImage,
      [ok |-> TRUE, faces |-> <<90>>],
      [ok |-> TRUE, faces |-> <<90, 50, 75>>] }

\* The images of the requests of the service: one that raises, one without a
\* face, one with several faces of which one is near enough.
RequestImages == { BadImage, NoFaceImage, [ok |-> TRUE, faces |-> <<90, 50, 75>>] }

RECURSIVE SeqsUpTo(_, _)
SeqsUpTo(S, n) ==
    IF n = 0 THEN { <<>> }
    ELSE LET shorter == SeqsUpTo(S, n - 1)
         IN shorter \cup { Append(q, x) : q \in { r \in shorter : Len(r) = n - 1 }, x \in S }

Batches == SeqsUpTo(RequestImages, MaxImages)

\* The batches of the requests made while the clock and the cleanup thread run.
ExpiryBatches == SeqsUpTo(RequestImages, MaxExpiryImages)

----------------------------------------------------------------------------
(* SessionStore *)

SessionData(encoding, t) == [encoding |-> encoding, last_accessed |-> t]

\* The mutant of IsExpired with >= for >.
IsExpiredInclusive(session_data, t) ==
    (t - session_data.last_accessed) * HoursPerTick >= SessionTTL

\* now - session_data.last_accessed > self.session_ttl
IsExpired(session_data, t) ==
    (t - session_data.last_accessed) * HoursPerTick > SessionTTL

Remove(f, k) == [x \in (DOMAIN f) \ {k} |-> f[x]]

Put(f, k, v) == [x \in (DOMAIN f) \cup {k} |-> IF x = k THEN v ELSE f[x]]

\* SessionStore.store: an unconditional upsert of a fresh SessionData.
store(S, session_id, encoding, t) == Put(S, session_id, SessionData(encoding, t))

\* SessionStore.retrieve: the store after the call and the value returned.
retrieve(S, session_id, t) ==
    IF session_id \in DOMAIN S
    THEN [sessions |-> [S EXCEPT ![session_id].last_accessed = t],
          result |-> S[session_id].encoding]
    ELSE [sessions |-> S, result |-> NoEncoding]

\* SessionStore.delete
delete(S, session_id) ==
    IF session_id \in DOMAIN S
    THEN [sessions |-> Remove(S, session_id), result |-> TRUE]
    ELSE [sessions |-> S, result |-> FALSE]

\* SessionStore.cleanup_expired_sessions run with no other thread in between.
cleanup_expired_sessions(S, t) ==
    LET expired_sessions == { s \in DOMAIN S : IsExpired(S[s], t) }
    IN [sessions |-> [s \in (DOMAIN S) \ expired_sessions |-> S[s]],
        result |-> Cardinality(expired_sessions)]

----------------------------------------------------------------------------
(* JobStore *)

Msg(kind, a, b) == [kind |-> kind, a |-> a, b |-> b]

\* JobStatus.__init__
JobStatus(total_images) ==
    [status |-> "processing", progress |-> 0, current_image |-> 0,
     total_images |-> total_images, matches_found |-> 0, matches |-> <<>>,
     message |-> Msg("Starting processing...", 0, 0), error |-> "None"]

\* int((current / job.total_images) * 100) if job.total_images > 0 else 0
Percent(current, total_images) ==
    IF total_images > 0 THEN (current * 100) \div total_images ELSE 0

\* The mutant of UpdateProgressWrite that stores matches_found before
\* current_image.
UpdateProgressWriteCountFirst(k, job, current, matches_found) ==
    CASE k = 1 -> [job EXCEPT !.matches_found = matches_found]
      [] k = 2 -> [job EXCEPT !.current_image = current]
      [] k = 3 -> [job EXCEPT !.progress = Percent(current, job.total_images)]
      [] k = 4 -> [job EXCEPT !.message = Msg("Processing image", current, job.total_images)]

\* The attribute writes of update_progress, in the order of the code.
UpdateProgressWrite(k, job, current, matches_found) ==
    CASE k = 1 -> [job EXCEPT !.current_image = current]
      [] k = 2 -> [job EXCEPT !.matches_found = matches_found]
      [] k = 3 -> [job EXCEPT !.progress = Percent(current, job.total_images)]
      [] k = 4 -> [job EXCEPT !.message = Msg("Processing image", current, job.total_images)]

\* The mutant of CompleteJobWrite that stores the list before the status.
CompleteJobWriteListFirst(k, job, matches) ==
    CASE k = 1 -> [job EXCEPT !.matches = matches]
      [] k = 2 -> [job EXCEPT !.progress = 100]
      [] k = 3 -> [job EXCEPT !.status = "completed"]
      [] k = 4 -> [job EXCEPT !.matches_found = Len(matches)]
      [] k = 5 -> [job EXCEPT !.message = Msg("Completed! Found", Len(matches), 0)]

\* The attribute writes of complete_job, in the order of the code.
CompleteJobWrite(k, job, matches) ==
    CASE k = 1 -> [job EXCEPT !.status = "completed"]
      [] k = 2 -> [job EXCEPT !.progress = 100]
      [] k = 3 -> [job EXCEPT !.matches = matches]
      [] k = 4 -> [job EXCEPT !.matches_found = Len(matches)]
      [] k = 5 -> [job EXCEPT !.message = Msg("Completed! Found", Len(matches), 0)]

\* The attribute writes of fail_job, in the order of the code.
FailJobWrite(k, job, error) ==
    CASE k = 1 -> [job EXCEPT !.status = "failed"]
      [] k = 2 -> [job EXCEPT !.error = error]
      [] k = 3 -> [job EXCEPT !.message = Msg("Failed: " \o error, 0, 0)]

\* JobStore.update_progress as one call: `if job:` and then the four writes.
update_progress(J, job_id, current, matches_found) ==
    IF job_id \notin DOMAIN J THEN J
    ELSE LET j1 == UpdateProgressWrite(1, J[job_id], current, matches_found)
             j2 == UpdateProgressWrite(2, j1, current, matches_found)
             j3 == UpdateProgressWrite(3, j2, current, matches_found)
             j4 == UpdateProgressWrite(4, j3, current, matches_found)
         IN [J EXCEPT ![job_id] = j4]

\* JobStore.complete_job as one call.
complete_job(J, job_id, matches) ==
    IF job_id \notin DOMAIN J THEN J
    ELSE LET j1 == CompleteJobWrite(1, J[job_id], matches)
             j2 == CompleteJobWrite(2, j1, matches)
             j3 == CompleteJobWrite(3, j2, matches)
             j4 == CompleteJobWrite(4, j3, matches)
             j5 == CompleteJobWrite(5, j4, matches)
         IN [J EXCEPT ![job_id] = j5]

\* JobStore.fail_job as one call.
fail_job(J, job_id, error) ==
    IF job_id \notin DOMAIN J THEN J
    ELSE LET j1 == FailJobWrite(1, J[job_id], error)
             j2 == FailJobWrite(2, j1, error)
             j3 == FailJobWrite(3, j2, error)
         IN [J EXCEPT ![job_id] = j3]

\* JobStore.create_job: uuid4 gives an id no job has; the model hands out the
\* smallest id not in use.
NextJobId(J) == CHOOSE i \in 1..(Cardinality(DOMAIN J) + 1) :
                    i \notin DOMAIN J /\ \A h \in 1..(i - 1) : h \in DOMAIN J

create_job(J, total_images) == Put(J, NextJobId(J), JobStatus(total_images))

IsTerminal(job) == job.status \in {"completed", "failed"}

\* JobStore.delete_job
delete_job(J, job_id) ==
    IF job_id \in DOMAIN J
    THEN [jobs |-> Remove(J, job_id), result |-> TRUE]
    ELSE [jobs |-> J, result |-> FALSE]

----------------------------------------------------------------------------
(* The per-image work of process_batch_background *)

Infinity == 1000

Abs(x) == IF x < 0 THEN -x ELSE x

\* face_recognition.face_distance([base_encoding], face_encoding)[0]
face_distance(base_encoding, face_encoding) == Abs(base_encoding - face_encoding)

\* The mutant of BestDistance with < 0.7 for <= 0.7.
RECURSIVE BestDistanceStrict(_, _, _)
BestDistanceStrict(base_encoding, face_encodings, best_distance) ==
    IF face_encodings = <<>> THEN best_distance
    ELSE LET distance == face_distance(base_encoding, Head(face_encodings))
         IN BestDistanceStrict(base_encoding, Tail(face_encodings),
                               IF distance < MatchThreshold /\ distance < best_distance
                               THEN distance ELSE best_distance)

\* The loop over face_encodings: the smallest distance that is <= 0.7, else inf.
RECURSIVE BestDistance(_, _, _)
BestDistance(base_encoding, face_encodings, best_distance) ==
    IF face_encodings = <<>> THEN best_distance
    ELSE LET distance == face_distance(base_encoding, Head(face_encodings))
         IN BestDistance(base_encoding, Tail(face_encodings),
                         IF distance <= MatchThreshold /\ distance < best_distance
                         THEN distance ELSE best_distance)

MatchResult(index, distance) == [index |-> index, distance |-> distance]

\* Whether the body of the per-image try raises: the image does not decode, or
\* face_distance is handed no reference embedding.
ImageRaises(base_encoding, image) ==
    \/ ~image.ok
    \/ (base_encoding = NoEncoding /\ Len(image.faces) > 0)

\* One entry for every face of the image that is near enough.
RECURSIVE AppendFaces(_, _, _, _)
AppendFaces(base_encoding, face_encodings, idx, matches) ==
    IF face_encodings = <<>> THEN matches
    ELSE LET distance == face_distance(base_encoding, Head(face_encodings))
         IN AppendFaces(base_encoding, Tail(face_encodings), idx,
                        IF distance <= MatchThreshold
                        THEN Append(matches, MatchResult(idx, distance)) ELSE matches)

\* The mutant of ProcessImage with the append inside the loop over the faces.
ProcessImagePerFace(base_encoding, image, idx, matches) ==
    AppendFaces(base_encoding, image.faces, idx, matches)

\* The mutant of ProcessImage with `matches = []` inside the loop: the list
\* holds the match of this image only.
ProcessImageFreshList(base_encoding, image, idx, matches) ==
    IF Len(image.faces) > 0
    THEN LET best_distance == BestDistance(base_encoding, image.faces, Infinity)
         IN IF best_distance <= MatchThreshold
            THEN <<MatchResult(idx, best_distance)>>
            ELSE <<>>
    ELSE <<>>

\* The match list after the image at idx was looked at (it did not raise).
ProcessImage(base_encoding, image, idx, matches) ==
    IF Len(image.faces) > 0
    THEN LET best_distance == BestDistance(base_encoding, image.faces, Infinity)
         IN IF best_distance <= MatchThreshold
            THEN Append(matches, MatchResult(idx, best_distance))
            ELSE matches
    ELSE matches

----------------------------------------------------------------------------
(* Initial state: the module-level session_store and job_store, the cleanup *)
(* thread just started, no request served yet.                              *)

NoResponse == [op |-> "none", code |-> 0]

NoCall == [op |-> "none"]

\* The cleanup thread: where it is, and the locals of cleanup_expired_sessions
\* (now, the iterator with the dict size it started from and the keys it has
\* yielded, the list, the index of the second loop).  The worker drops the
\* count the function returns.
CleanupThread(pc, t, size, visited, expired_sessions, k) ==
    [pc |-> pc, now |-> t, size |-> size, visited |-> visited,
     expired_sessions |-> expired_sessions, k |-> k]

\* The thread on line 69, and in the handler of line 66: the locals are gone.
Sleeping == CleanupThread("sleep", 0, 0, {}, <<>>, 0)
Raised == CleanupThread("except", 0, 0, {}, <<>>, 0)

Init ==
    /\ now = 0
    /\ sessions = << >>
    /\ cleanup = CleanupThread("begin", 0, 0, {}, <<>>, 0)
    /\ jobs = << >>
    /\ bp = << >>
    /\ loop = [pc |-> "idle", job |-> 0, k |-> 0, out |-> NoResponse]
    /\ polled = << >>
    /\ call = NoCall
    /\ lostSession = {}

\* Time passes.
Tick ==
    /\ now < MaxTicks
    /\ now' = now + 1
    /\ UNCHANGED <<sessions, cleanup, jobs, bp, loop, polled, call, lostSession>>

----------------------------------------------------------------------------
(* process_batch_background: one task per job, on a thread of the pool *)

Task(pc, k, session_id, images, base_encoding, idx, matches, error) ==
    [pc |-> pc, k |-> k, session_id |-> session_id, images |-> images,
     base_encoding |-> base_encoding, idx |-> idx, matches |-> matches,
     error |-> error]

\* The head of `for idx, image_base64 in enumerate(images)`: the next image, or
\* the call of complete_job after the last one.
LoopHead(task, idx) ==
    IF idx < Len(task.images)
    THEN [task EXCEPT !.pc = "image", !.idx = idx, !.k = 0]
    ELSE [task EXCEPT !.pc = "complete_job", !.idx = idx, !.k = 1]

\* The mutant of BPRetrieve with the `return` after fail_job left out.
BPRetrieveNoReturn(j) ==
    /\ j \in DOMAIN bp
    /\ bp[j].pc = "retrieve"
    /\ LET r == retrieve(sessions, bp[j].session_id, now)
       IN /\ sessions' = r.sessions
          /\ IF r.result = NoEncoding
             THEN /\ jobs' = fail_job(jobs, j, "Session not found")
                  /\ bp' = [bp EXCEPT ![j] = LoopHead(bp[j], 0)]
             ELSE /\ jobs' = jobs
                  /\ bp' = [bp EXCEPT ![j] =
                               LoopHead([bp[j] EXCEPT !.base_encoding = r.result], 0)]
    /\ UNCHANGED <<now, cleanup, loop, polled, call, lostSession>>

\* Lines 236-242: the one retrieve of the reference embedding; a missing session
\* goes to fail_job(job_id, "Session not found") and returns.
BPRetrieve(j) ==
    /\ j \in DOMAIN bp
    /\ bp[j].pc = "retrieve"
    /\ LET r == retrieve(sessions, bp[j].session_id, now)
       IN /\ sessions' = r.sessions
          /\ bp' = [bp EXCEPT ![j] =
                       IF r.result = NoEncoding
                       THEN [bp[j] EXCEPT !.pc = "fail_job", !.k = 1,
                                          !.error = "Session not found"]
                       ELSE LoopHead([bp[j] EXCEPT !.base_encoding = r.result], 0)]
    /\ UNCHANGED <<now, cleanup, jobs, loop, polled, call, lostSession>>

\* The mutant of BPImage that fetches the reference embedding from the session
\* map again for every image instead of using the one retrieved at the start.
BPImageRereads(j) ==
    /\ j \in DOMAIN bp
    /\ bp[j].pc = "image"
    /\ LET task == bp[j]
           image == task.images[task.idx + 1]
           base_encoding == IF task.session_id \in DOMAIN sessions
                            THEN sessions[task.session_id].encoding ELSE NoEncoding
       IN bp' = [bp EXCEPT ![j] =
                    IF ImageRaises(base_encoding, image)
                    THEN [task EXCEPT !.pc = "except"]
                    ELSE [task EXCEPT !.pc = "update_progress", !.k = 1,
                                      !.matches = ProcessImage(base_encoding, image,
                                                               task.idx, task.matches)]]
    /\ UNCHANGED <<now, sessions, cleanup, jobs, loop, polled, call, lostSession>>

\* Lines 245-271: decode, detect, encode, compare; an exception goes to the
\* per-image handler, otherwise update_progress is called next.
BPImage(j) ==
    /\ j \in DOMAIN bp
    /\ bp[j].pc = "image"
    /\ LET task == bp[j]
           image == task.images[task.idx + 1]
       IN bp' = [bp EXCEPT ![j] =
                    IF ImageRaises(task.base_encoding, image)
                    THEN [task EXCEPT !.pc = "except"]
                    ELSE [task EXCEPT !.pc = "update_progress", !.k = 1,
                                      !.matches = ProcessImage(task.base_encoding, image,
                                                               task.idx, task.matches)]]
    /\ UNCHANGED <<now, sessions, cleanup, jobs, loop, polled, call, lostSession>>

\* Line 273, update_progress(job_id, idx + 1, len(matches)): one attribute
\* write per step; after the last write the loop goes on.
BPUpdateProgress(j) ==
    /\ j \in DOMAIN bp
    /\ bp[j].pc = "update_progress"
    /\ LET task == bp[j]
       IN /\ jobs' = IF j \in DOMAIN jobs
                     THEN [jobs EXCEPT ![j] = UpdateProgressWrite(task.k, jobs[j],
                                                  task.idx + 1, Len(task.matches))]
                     ELSE jobs
          /\ bp' = [bp EXCEPT ![j] =
                       IF task.k < 4 /\ j \in DOMAIN jobs
                       THEN [task EXCEPT !.k = task.k + 1]
                       ELSE LoopHead(task, task.idx + 1)]
    /\ UNCHANGED <<now, sessions, cleanup, loop, polled, call, lostSession>>

\* The mutant of BPExcept with `break` for `continue`: the first image that
\* raises ends the loop.
BPExceptBreaks(j) ==
    /\ j \in DOMAIN bp
    /\ bp[j].pc = "except"
    /\ bp' = [bp EXCEPT ![j] = [bp[j] EXCEPT !.pc = "complete_job", !.k = 1]]
    /\ UNCHANGED <<now, sessions, cleanup, jobs, loop, polled, call, lostSession>>

\* Lines 275-277: the per-image handler logs and continues with the next image;
\* update_progress is not called for this image.
BPExcept(j) ==
    /\ j \in DOMAIN bp
    /\ bp[j].pc = "except"
    /\ bp' = [bp EXCEPT ![j] = LoopHead(bp[j], bp[j].idx + 1)]
    /\ UNCHANGED <<now, sessions, cleanup, jobs, loop, polled, call, lostSession>>

\* The mutant of BPOuterExcept that logs the error and does not call fail_job.
BPOuterExceptNoFail(j) ==
    /\ j \in DOMAIN bp
    /\ bp[j].pc = "except"
    /\ bp' = [bp EXCEPT ![j] = [bp[j] EXCEPT !.pc = "done", !.k = 0, !.error = "unexpected"]]
    /\ UNCHANGED <<now, sessions, cleanup, jobs, loop, polled, call, lostSession>>

\* Lines 281-283: an exception raised outside the per-image try (here: by the
\* statement of the per-image handler itself) reaches the outer handler, which
\* calls fail_job(job_id, str(e)).
BPOuterExcept(j) ==
    /\ j \in DOMAIN bp
    /\ bp[j].pc = "except"
    /\ bp' = [bp EXCEPT ![j] = [bp[j] EXCEPT !.pc = "fail_job", !.k = 1,
                                              !.error = "unexpected"]]
    /\ UNCHANGED <<now, sessions, cleanup, jobs, loop, polled, call, lostSession>>

\* Line 279, complete_job(job_id, matches): one attribute write per step.
BPCompleteJob(j) ==
    /\ j \in DOMAIN bp
    /\ bp[j].pc = "complete_job"
    /\ LET task == bp[j]
       IN /\ jobs' = IF j \in DOMAIN jobs
                     THEN [jobs EXCEPT ![j] = CompleteJobWrite(task.k, jobs[j], task.matches)]
                     ELSE jobs
          /\ bp' = [bp EXCEPT ![j] =
                       IF task.k < 5 /\ j \in DOMAIN jobs
                       THEN [task EXCEPT !.k = task.k + 1]
                       ELSE [task EXCEPT !.pc = "done", !.k = 0]]
    /\ UNCHANGED <<now, sessions, cleanup, loop, polled, call, lostSession>>

\* Lines 238 and 283, fail_job(job_id, error): one attribute write per step.
BPFailJob(j) ==
    /\ j \in DOMAIN bp
    /\ bp[j].pc = "fail_job"
    /\ LET task == bp[j]
       IN /\ jobs' = IF j \in DOMAIN jobs
                     THEN [jobs EXCEPT ![j] = FailJobWrite(task.k, jobs[j], task.error)]
                     ELSE jobs
          /\ bp' = [bp EXCEPT ![j] =
                       IF task.k < 3 /\ j \in DOMAIN jobs
                       THEN [task EXCEPT !.k = task.k + 1]
                       ELSE [task EXCEPT !.pc = "done", !.k = 0]]
    /\ UNCHANGED <<now, sessions, cleanup, loop, polled, call, lostSession>>

BatchProcessor(j) ==
    \/ BPRetrieve(j)
    \/ BPImage(j)
    \/ BPUpdateProgress(j)
    \/ BPExcept(j)
    \/ BPOuterExcept(j)
    \/ BPCompleteJob(j)
    \/ BPFailJob(j)

\* The jobs accepted for this session whose task has not made its retrieve yet
\* (read by the history variable only).
Waiting(session_id) ==
    { j \in DOMAIN bp : bp[j].pc = "retrieve" /\ bp[j].session_id = session_id }

----------------------------------------------------------------------------
(* cleanup_worker: the daemon thread started by SessionStore.__init__ *)

\* Lines 48-51: now is read, the list is empty, the iterator over
\* self.sessions.items() remembers the size of the dict.
CleanupBegin ==
    /\ cleanup.pc = "begin"
    /\ cleanup' = CleanupThread("scan", now, Cardinality(DOMAIN sessions), {}, <<>>, 1)
    /\ UNCHANGED <<now, sessions, jobs, bp, loop, polled, call, lostSession>>

\* Lines 51-53, one step of the iterator with the test of the item it yields.
\* The iterator raises RuntimeError when the dict changed size since the loop
\* began, or when it finds more items than the dict had then.
CleanupScan ==
    /\ cleanup.pc = "scan"
    /\ LET unvisited == (DOMAIN sessions) \ cleanup.visited
       IN IF \/ Cardinality(DOMAIN sessions) # cleanup.size
             \/ (unvisited # {} /\ Cardinality(cleanup.visited) >= cleanup.size)
          THEN cleanup' = Raised
          ELSE IF unvisited = {}
          THEN cleanup' = [cleanup EXCEPT !.pc = "delete"]
          ELSE \E session_id \in unvisited :
                  cleanup' = [cleanup EXCEPT
                      !.visited = @ \cup {session_id},
                      !.expired_sessions =
                          IF IsExpired(sessions[session_id], cleanup.now)
                          THEN Append(@, session_id) ELSE @]
    /\ UNCHANGED <<now, sessions, jobs, bp, loop, polled, call, lostSession>>

\* Lines 55-58: `del self.sessions[session_id]` for one id of the list (KeyError
\* when another thread deleted it meanwhile), or the return of the count.
CleanupDelete ==
    /\ cleanup.pc = "delete"
    /\ IF cleanup.k > Len(cleanup.expired_sessions)
       THEN /\ cleanup' = Sleeping
            /\ UNCHANGED <<sessions, lostSession>>
       ELSE LET session_id == cleanup.expired_sessions[cleanup.k]
            IN IF session_id \notin DOMAIN sessions
               THEN /\ cleanup' = Raised
                    /\ UNCHANGED <<sessions, lostSession>>
               ELSE /\ cleanup' = [cleanup EXCEPT !.k = @ + 1]
                    /\ sessions' = Remove(sessions, session_id)
                    /\ lostSession' = lostSession \cup Waiting(session_id)
    /\ UNCHANGED <<now, jobs, bp, loop, polled, call>>

\* The mutant of CleanupExcept without the try: the exception ends the thread.
CleanupExceptStops ==
    /\ cleanup.pc = "except"
    /\ cleanup' = [cleanup EXCEPT !.pc = "dead"]
    /\ UNCHANGED <<now, sessions, jobs, bp, loop, polled, call, lostSession>>

\* Lines 66-67: the worker logs the error of the cycle and goes to sleep.
CleanupExcept ==
    /\ cleanup.pc = "except"
    /\ cleanup' = Sleeping
    /\ UNCHANGED <<now, sessions, jobs, bp, loop, polled, call, lostSession>>

\* Line 69: the wait of an hour ends and `while True` starts the next cycle.
CleanupWake ==
    /\ cleanup.pc = "sleep"
    /\ cleanup' = [cleanup EXCEPT !.pc = "begin"]
    /\ UNCHANGED <<now, sessions, jobs, bp, loop, polled, call, lostSession>>

CleanupWorker ==
    \/ CleanupBegin
    \/ CleanupScan
    \/ CleanupDelete
    \/ CleanupExcept
    \/ CleanupWake

----------------------------------------------------------------------------
(* The request handlers, one at a time on the event loop *)

Respond(op, code) == [op |-> op, code |-> code]

\* register_face with an image in which exactly one face is found (any other
\* image is answered with 400 before anything is written).
RegisterFace(session_id, encoding) ==
    /\ loop.pc = "idle"
    /\ sessions' = store(sessions, session_id, encoding, now)
    /\ loop' = [loop EXCEPT !.out = Respond("register", 200)]
    /\ UNCHANGED <<now, cleanup, jobs, bp, polled, call, lostSession>>

\* The mutant of CompareBatch that creates the job before it looks for the
\* session.
CompareBatchCreatesFirst(session_id, images) ==
    /\ loop.pc = "idle"
    /\ LET r == retrieve(sessions, session_id, now)
           job_id == NextJobId(jobs)
       IN /\ job_id \in JobIds
          /\ jobs' = create_job(jobs, Len(images))
          /\ sessions' = r.sessions
          /\ IF r.result = NoEncoding
             THEN /\ loop' = [loop EXCEPT !.out = Respond("compare_batch", 404)]
                  /\ bp' = bp
             ELSE /\ bp' = Put(bp, job_id,
                               Task("retrieve", 0, session_id, images, NoEncoding, 0, <<>>, "None"))
                  /\ loop' = [loop EXCEPT !.out =
                                 [op |-> "compare_batch", code |-> 200, job_id |-> job_id]]
    /\ UNCHANGED <<now, cleanup, polled, call, lostSession>>

\* compare_batch: 404 when retrieve finds no session; otherwise the job is
\* created and process_batch_background is added as a background task.
CompareBatch(session_id, images) ==
    /\ loop.pc = "idle"
    /\ LET r == retrieve(sessions, session_id, now)
           job_id == NextJobId(jobs)
       IN IF r.result = NoEncoding
          THEN /\ loop' = [loop EXCEPT !.out = Respond("compare_batch", 404)]
               /\ UNCHANGED <<sessions, jobs, bp>>
          ELSE /\ job_id \in JobIds
               /\ sessions' = r.sessions
               /\ jobs' = create_job(jobs, Len(images))
               /\ bp' = Put(bp, job_id,
                            Task("retrieve", 0, session_id, images, NoEncoding, 0, <<>>, "None"))
               /\ loop' = [loop EXCEPT !.out =
                              [op |-> "compare_batch", code |-> 200, job_id |-> job_id]]
    /\ UNCHANGED <<now, cleanup, polled, call, lostSession>>

\* delete_session
DeleteSession(session_id) ==
    /\ loop.pc = "idle"
    /\ LET r == delete(sessions, session_id)
       IN /\ sessions' = r.sessions
          /\ loop' = [loop EXCEPT !.out =
                         Respond("delete_session", IF r.result THEN 200 ELSE 404)]
          /\ lostSession' = IF r.result THEN lostSession \cup Waiting(session_id)
                             ELSE lostSession
    /\ UNCHANGED <<now, cleanup, jobs, bp, polled, call>>

\* The JobStatusResponse under construction: nothing read yet.
BlankStatus(job_id) ==
    [op |-> "job_status", code |-> 0, job_id |-> job_id, status |-> "?",
     progress |-> -1, current_image |-> -1, total_images |-> -1,
     matches_found |-> -1, message |-> Msg("?", 0, 0), matches |-> <<>>,
     error |-> "?"]

\* get_job_status, lines 312-315: get_job; 404 for an unknown job.
GetJobStatusBegin(job_id) ==
    /\ loop.pc = "idle"
    /\ loop' = IF job_id \in DOMAIN jobs
               THEN [pc |-> "job_status", job |-> job_id, k |-> 1, out |-> BlankStatus(job_id)]
               ELSE [loop EXCEPT !.out = Respond("job_status", 404)]
    /\ UNCHANGED <<now, sessions, cleanup, jobs, bp, polled, call, lostSession>>

\* What the k-th attribute read of get_job_status adds to the response.  Reads 1
\* and 2 are line 319 (`job.status == "completed" and job.matches`; an empty
\* list leaves matches as None, shown as the empty sequence), reads 3 to 8 are
\* the arguments of JobStatusResponse in the order they are written.
StatusRead(k, job, out) ==
    CASE k = 1 -> out
      [] k = 2 -> [out EXCEPT !.matches = job.matches]
      [] k = 3 -> [out EXCEPT !.status = job.status]
      [] k = 4 -> [out EXCEPT !.progress = job.progress]
      [] k = 5 -> [out EXCEPT !.current_image = job.current_image,
                              !.total_images = job.total_images]
      [] k = 6 -> [out EXCEPT !.matches_found = job.matches_found]
      [] k = 7 -> [out EXCEPT !.message = job.message]
      [] k = 8 -> [out EXCEPT !.error = job.error, !.code = 200]

\* The read after the k-th: line 319 reads job.matches only of a completed job.
NextRead(k, job) == IF k = 1 /\ job.status # "completed" THEN 3 ELSE k + 1

Seen(out) == [current_image |-> out.current_image, matches_found |-> out.matches_found,
              total_images |-> out.total_images]

\* get_job_status, lines 319-332: one attribute read of the job per step; the
\* last one sends the response.
GetJobStatusRead ==
    /\ loop.pc = "job_status"
    /\ LET job == jobs[loop.job]
           out == StatusRead(loop.k, job, loop.out)
       IN IF loop.k < 8
          THEN /\ loop' = [loop EXCEPT !.k = NextRead(loop.k, job), !.out = out]
               /\ polled' = polled
          ELSE /\ loop' = [pc |-> "idle", job |-> 0, k |-> 0, out |-> out]
               /\ polled' = Put(polled, loop.job, Seen(out))
    /\ UNCHANGED <<now, sessions, cleanup, jobs, bp, call, lostSession>>

Handler ==
    \/ \E session_id \in RequestSessionIds, encoding \in RequestEncodings :
           RegisterFace(session_id, encoding)
    \/ \E session_id \in RequestSessionIds, images \in Batches :
           CompareBatch(session_id, images)
    \/ \E session_id \in RequestSessionIds : DeleteSession(session_id)
    \/ \E job_id \in JobIds : GetJobStatusBegin(job_id)
    \/ GetJobStatusRead

----------------------------------------------------------------------------
(* Calls made directly on the two stores, each run to its end *)

StoreCall(session_id, encoding) ==
    /\ sessions' = store(sessions, session_id, encoding, now)
    /\ call' = [op |-> "store", id |-> session_id, result |-> 0]
    /\ UNCHANGED <<now, cleanup, jobs, bp, loop, polled, lostSession>>

RetrieveCall(session_id) ==
    /\ LET r == retrieve(sessions, session_id, now)
       IN /\ sessions' = r.sessions
          /\ call' = [op |-> "retrieve", id |-> session_id, result |-> r.result]
    /\ UNCHANGED <<now, cleanup, jobs, bp, loop, polled, lostSession>>

DeleteCall(session_id) ==
    /\ LET r == delete(sessions, session_id)
       IN /\ sessions' = r.sessions
          /\ call' = [op |-> "delete", id |-> session_id,
                      result |-> IF r.result THEN 1 ELSE 0]
    /\ UNCHANGED <<now, cleanup, jobs, bp, loop, polled, lostSession>>

CleanupCall ==
    /\ LET r == cleanup_expired_sessions(sessions, now)
       IN /\ sessions' = r.sessions
          /\ call' = [op |-> "cleanup_expired_sessions", id |-> "", result |-> r.result]
    /\ UNCHANGED <<now, cleanup, jobs, bp, loop, polled, lostSession>>

SessionStoreCall ==
    \/ \E session_id \in SessionIds, encoding \in Encodings : StoreCall(session_id, encoding)
    \/ \E session_id \in SessionIds : RetrieveCall(session_id)
    \/ \E session_id \in SessionIds : DeleteCall(session_id)

\* The arguments the calls on the JobStore are tried with.
MatchLists == { <<>>, <<MatchResult(0, 50)>>, <<MatchResult(0, 50), MatchResult(1, 30)>> }
Errors == { "Session not found", "unexpected" }
CallJobIds == JobIds \cup {2}

CreateJobCall(total_images) ==
    /\ NextJobId(jobs) \in JobIds
    /\ jobs' = create_job(jobs, total_images)
    /\ call' = [op |-> "create_job", id |-> NextJobId(jobs), result |-> 0]
    /\ UNCHANGED <<now, sessions, cleanup, bp, loop, polled, lostSession>>

UpdateProgressCall(job_id, current, matches_found) ==
    /\ jobs' = update_progress(jobs, job_id, current, matches_found)
    /\ call' = [op |-> "update_progress", id |-> job_id, result |-> 0]
    /\ UNCHANGED <<now, sessions, cleanup, bp, loop, polled, lostSession>>

CompleteJobCall(job_id, matches) ==
    /\ jobs' = complete_job(jobs, job_id, matches)
    /\ call' = [op |-> "complete_job", id |-> job_id, result |-> 0]
    /\ UNCHANGED <<now, sessions, cleanup, bp, loop, polled, lostSession>>

FailJobCall(job_id, error) ==
    /\ jobs' = fail_job(jobs, job_id, error)
    /\ call' = [op |-> "fail_job", id |-> job_id, result |-> 0]
    /\ UNCHANGED <<now, sessions, cleanup, bp, loop, polled, lostSession>>

DeleteJobCall(job_id) ==
    /\ LET r == delete_job(jobs, job_id)
       IN /\ jobs' = r.jobs
          /\ call' = [op |-> "delete_job", id |-> job_id,
                      result |-> IF r.result THEN 1 ELSE 0]
    /\ UNCHANGED <<now, sessions, cleanup, bp, loop, polled, lostSession>>

JobStoreCall ==
    \/ \E total_images \in 0..MaxImages : CreateJobCall(total_images)
    \/ \E job_id \in CallJobIds, current \in 0..MaxImages, matches_found \in 0..MaxImages :
           UpdateProgressCall(job_id, current, matches_found)
    \/ \E job_id \in CallJobIds, matches \in MatchLists : CompleteJobCall(job_id, matches)
    \/ \E job_id \in CallJobIds, error \in Errors : FailJobCall(job_id, error)
    \/ \E job_id \in CallJobIds : DeleteJobCall(job_id)

----------------------------------------------------------------------------
(* Specifications *)

\* The service as its clients and its batch processors drive it: the requests
\* on the event loop and the background tasks.  The cleanup thread and the
\* clock are left to SpecExpiry: they write nothing but the session map, and
\* every way they can make a session vanish is a delete_session here.
Next ==
    \/ Handler
    \/ \E j \in JobIds : BatchProcessor(j)

Spec == Init /\ [][Next]_vars

\* Each task that was added is run to its end by the thread pool.
FairSpec == Spec /\ \A j \in JobIds : WF_vars(BatchProcessor(j))

\* The service with the cleanup thread and the clock, without job-status
\* requests (they write nothing the other threads read).
NextExpiry ==
    \/ Tick
    \/ CleanupWorker
    \/ \E session_id \in RequestSessionIds, encoding \in Encodings :
           RegisterFace(session_id, encoding)
    \/ \E session_id \in RequestSessionIds, images \in ExpiryBatches :
           CompareBatch(session_id, images)
    \/ \E session_id \in RequestSessionIds : DeleteSession(session_id)
    \/ \E j \in JobIds : BatchProcessor(j)

SpecExpiry == Init /\ [][NextExpiry]_vars

\* The SessionStore under calls from request threads while the cleanup thread runs.
NextSession ==
    \/ Tick
    \/ CleanupWorker
    \/ SessionStoreCall

SpecSession == Init /\ [][NextSession]_vars

\* The SessionStore called from one thread, cleanup_expired_sessions included.
NextSessionSeq ==
    \/ Tick
    \/ SessionStoreCall
    \/ CleanupCall

SpecSessionSeq == Init /\ [][NextSessionSeq]_vars

\* The JobStore called from one thread.
NextJobStore == JobStoreCall

SpecJobStore == Init /\ [][NextJobStore]_vars

\* The SessionStore as in SpecSession, with the cleanup thread scheduled again
\* and again (it is a thread of its own and its wait of an hour ends).
FairSpecSession == SpecSession /\ WF_vars(CleanupWorker)

\* The batches of any of the images the oracle knows.
AnyBatches == SeqsUpTo(Images, MaxImages)

\* The service without job-status requests (they write nothing), the
\* registrations storing any of the embeddings and the batches made of any of
\* the images.
NextBatch ==
    \/ \E session_id \in RequestSessionIds, encoding \in Encodings :
           RegisterFace(session_id, encoding)
    \/ \E session_id \in RequestSessionIds, images \in AnyBatches :
           CompareBatch(session_id, images)
    \/ \E session_id \in RequestSessionIds : DeleteSession(session_id)
    \/ \E j \in JobIds : BatchProcessor(j)

SpecBatch == Init /\ [][NextBatch]_vars

----------------------------------------------------------------------------
(* What the claims are stated with *)

\* The match list after the first n images of a batch, each looked at once and
\* in order, an image that raises adding nothing.
RECURSIVE MatchesOf(_, _, _)
MatchesOf(base_encoding, images, n) ==
    IF n = 0 THEN <<>>
    ELSE LET before == MatchesOf(base_encoding, images, n - 1)
         IN IF ImageRaises(base_encoding, images[n]) THEN before
            ELSE ProcessImage(base_encoding, images[n], n - 1, before)

\* The fields a terminal call sets.
TerminalFields(job) ==
    <<job.status, job.matches, job.matches_found, job.error, job.message>>

\* The fields update_progress sets.
ProgressFields(job) ==
    <<job.current_image, job.matches_found, job.progress, job.message>>

\* A job-status response has been sent and is the last response of the loop.
StatusSent == loop.pc = "idle" /\ loop.out.op = "job_status" /\ loop.out.code = 200

----------------------------------------------------------------------------
(* C1 *)

\* C1: complete_job or fail_job called on a job that is already completed or
\* failed changes none of its status, matches, matches_found, error, message.
C1_TerminalCallIsNoOp ==
    [][\A j \in DOMAIN jobs :
          (IsTerminal(jobs[j]) /\ call'.op \in {"complete_job", "fail_job"} /\ call'.id = j)
              => (j \in DOMAIN jobs' /\ TerminalFields(jobs'[j]) = TerminalFields(jobs[j]))]_vars

(* C2 *)

\* C2: update_progress creates no job for an absent id and changes none of
\* current_image, matches_found, progress, message of a completed or failed job.
C2_UpdateProgressFrame ==
    [][call'.op = "update_progress" =>
          /\ DOMAIN jobs' = DOMAIN jobs
          /\ \A j \in DOMAIN jobs :
                (IsTerminal(jobs[j]) /\ call'.id = j)
                    => ProgressFields(jobs'[j]) = ProgressFields(jobs[j])]_vars

(* C3 *)

\* C3: in the running service a job is never removed, its status is one of the
\* three, and once it is completed or failed its status never changes again.
C3_TerminalStatusAbsorbing ==
    [][\A j \in DOMAIN jobs :
          /\ j \in DOMAIN jobs'
          /\ jobs'[j].status \in {"processing", "completed", "failed"}
          /\ IsTerminal(jobs[j]) => jobs'[j].status = jobs[j].status]_vars

\* A job failed by the outer handler whose task has ended, while its session
\* is registered.
C3_Witness ==
    \E j \in DOMAIN bp :
        /\ bp[j].pc = "done"
        /\ jobs[j].status = "failed"
        /\ jobs[j].error = "unexpected"
        /\ bp[j].session_id \in DOMAIN sessions

(* C4 *)

\* C4: every job whose task was added reaches status completed or failed.
C4_EveryJobEnds ==
    \A j \in JobIds :
        (j \in DOMAIN bp) ~> (j \in DOMAIN jobs /\ IsTerminal(jobs[j]))

\* A batch with an image that raised has been completed by its task.
C4_Witness ==
    \E j \in DOMAIN bp :
        /\ bp[j].pc = "done"
        /\ jobs[j].status = "completed"
        /\ \E i \in 1..Len(bp[j].images) : ~bp[j].images[i].ok

(* C5 *)

\* C5: from one job-status response of a job to the next, current_image and
\* matches_found do not decrease, and current_image is at most total_images.
C5_PollsMoveForward ==
    [][\A j \in DOMAIN polled' :
          /\ polled'[j].current_image <= polled'[j].total_images
          /\ j \in DOMAIN polled =>
                /\ polled'[j].current_image >= polled[j].current_image
                /\ polled'[j].matches_found >= polled[j].matches_found]_vars

\* A second poll is reading a job of which the first poll saw one image done
\* and one match, and has read that two images are done.
C5_Witness ==
    \E j \in DOMAIN polled :
        /\ polled[j].current_image = 1
        /\ polled[j].matches_found = 1
        /\ loop.pc = "job_status" /\ loop.job = j /\ loop.k > 5
        /\ loop.out.current_image = 2

(* C6 *)

\* C6: a job-status response that says completed carries the final match list
\* (the list its task handed to complete_job; None when that list is empty).
C6_CompletedWithFinalMatches ==
    (StatusSent /\ loop.out.status = "completed")
        => loop.out.matches = bp[loop.out.job_id].matches

(* C7 *)

\* C7: a job-status response sent while the task is still in its loop shows
\* current_image, matches_found, progress and message of one and the same
\* state of the job: the initial one or the one after one update_progress.
C7_ProgressNotTorn ==
    (StatusSent /\ bp[loop.out.job_id].pc \in {"image", "update_progress", "except"})
        => LET out == loop.out
               task == bp[out.job_id]
           IN /\ out.progress = Percent(out.current_image, out.total_images)
              /\ out.matches_found =
                    Len(MatchesOf(task.base_encoding, task.images, out.current_image))
              /\ out.message = IF out.current_image = 0
                               THEN Msg("Starting processing...", 0, 0)
                               ELSE Msg("Processing image", out.current_image, out.total_images)

(* C8 *)

\* What a task that has made its retrieve ends with: the job failed by the
\* outer handler, or completed with the matches of its images against the
\* embedding it retrieved, whatever became of the session afterwards.
SnapshotOutcome(j) ==
    (bp[j].pc = "done" /\ bp[j].base_encoding # NoEncoding) =>
        IF bp[j].error = "unexpected"
        THEN /\ jobs[j].status = "failed"
             /\ jobs[j].error = "unexpected"
             /\ jobs[j].matches = <<>>
        ELSE /\ jobs[j].status = "completed"
             /\ jobs[j].error = "None"
             /\ jobs[j].matches =
                    MatchesOf(bp[j].base_encoding, bp[j].images, Len(bp[j].images))

FailedSessionNotFound(j) ==
    /\ jobs[j].status = "failed"
    /\ jobs[j].error = "Session not found"
    /\ jobs[j].matches = <<>>

\* C8 as claimed: the outcome of a task that made its retrieve does not depend
\* on the session afterwards, and a job whose session was deleted or evicted
\* between the acceptance and the retrieve ends failed, "Session not found".
C8_SnapshotAsClaimed ==
    \A j \in DOMAIN bp :
        /\ SnapshotOutcome(j)
        /\ (bp[j].pc = "done" /\ j \in lostSession) => FailedSessionNotFound(j)

\* C8 as amended: the same, for a session that was deleted or evicted between
\* the acceptance and the retrieve and is still absent at the retrieve.
C8_SnapshotAmended ==
    \A j \in DOMAIN bp :
        /\ SnapshotOutcome(j)
        /\ (bp[j].pc = "done" /\ j \in lostSession /\ bp[j].base_encoding = NoEncoding)
              => FailedSessionNotFound(j)
        /\ (bp[j].pc = "done" /\ bp[j].base_encoding = NoEncoding) => j \in lostSession

\* A job completed with a match although its session was evicted after the
\* retrieve: no request came after the compare-batch, and the session is gone.
C8_Witness ==
    \E j \in DOMAIN bp :
        /\ bp[j].pc = "done"
        /\ jobs[j].status = "completed"
        /\ jobs[j].matches # <<>>
        /\ bp[j].session_id \notin DOMAIN sessions
        /\ loop.out.op = "compare_batch"

(* C9 *)

\* C9: the cleanup pass deletes a record only if, at the moment it deletes it,
\* the record has not been accessed for longer than the TTL.
C9_EvictsOnlyIdleRecords ==
    [][\A s \in DOMAIN sessions :
          (s \notin DOMAIN sessions' /\ cleanup' # cleanup)
              => (now - sessions[s].last_accessed) * HoursPerTick > SessionTTL]_vars

(* C10 *)

\* C10: with one thread calling, retrieve of a stored session returns its
\* embedding and sets last_accessed to now, store sets it to now, and
\* cleanup_expired_sessions removes exactly the records not accessed for longer
\* than the TTL, leaves the others as they are, and returns how many it removed.
C10_SlidingExpiry ==
    [][/\ (call'.op = "retrieve" /\ now' = now /\ call'.id \in DOMAIN sessions) =>
            /\ call'.result = sessions[call'.id].encoding
            /\ sessions' = [sessions EXCEPT ![call'.id].last_accessed = now]
       /\ (call'.op = "store" /\ now' = now) =>
            /\ call'.id \in DOMAIN sessions'
            /\ sessions'[call'.id].last_accessed = now
       /\ (call'.op = "cleanup_expired_sessions" /\ now' = now) =>
            /\ DOMAIN sessions' =
                  { s \in DOMAIN sessions :
                       (now - sessions[s].last_accessed) * HoursPerTick <= SessionTTL }
            /\ \A s \in DOMAIN sessions' : sessions'[s] = sessions[s]
            /\ call'.result = Cardinality(DOMAIN sessions)
                                 - Cardinality(DOMAIN sessions')]_vars

\* cleanup_expired_sessions has just removed one session and kept another whose
\* last access is exactly one TTL old or newer.
C10_Witness ==
    /\ call.op = "cleanup_expired_sessions"
    /\ call.result = 1
    /\ \E s \in DOMAIN sessions : now > sessions[s].last_accessed

(* C11 *)

\* C11: with store, retrieve and delete called from other threads while it
\* runs, a pass of cleanup_expired_sessions never raises.
C11_PassNeverRaises == cleanup.pc # "except"

(* C12 *)

\* C12: a task that found its session and whose outer handler did not run ends
\* with the job completed, after the loop has gone through every image of the
\* batch, and the final list holds the matches of the images that did not
\* raise, whichever images raised.
C12_FailureIsolation ==
    \A j \in DOMAIN bp :
        (bp[j].pc = "done" /\ bp[j].base_encoding # NoEncoding /\ bp[j].error # "unexpected")
            => /\ jobs[j].status = "completed"
               /\ bp[j].idx = Len(bp[j].images)
               /\ jobs[j].matches = MatchesOf(bp[j].base_encoding, bp[j].images,
                                              Len(bp[j].images))

\* A batch whose first image raised and whose second image matched has been
\* completed.
C12_Witness ==
    \E j \in DOMAIN bp :
        /\ bp[j].pc = "done"
        /\ jobs[j].status = "completed"
        /\ Len(bp[j].images) = 2
        /\ bp[j].images[1] = BadImage
        /\ jobs[j].matches # <<>>

(* C13 *)

\* The smallest distance of the faces of an image to the reference.
MinDistance(base_encoding, faces) ==
    CHOOSE d \in { face_distance(base_encoding, faces[i]) : i \in DOMAIN faces } :
        \A i \in DOMAIN faces : d <= face_distance(base_encoding, faces[i])

\* The positions of the images that did not fail, show a face, and whose
\* smallest distance is at most 0.7, in increasing order.
AcceptedPositions(base_encoding, images) ==
    SelectSeq([i \in 1..Len(images) |-> i],
              LAMBDA i : /\ images[i].ok
                         /\ images[i].faces # <<>>
                         /\ MinDistance(base_encoding, images[i].faces) <= MatchThreshold)

ExpectedMatches(base_encoding, images) ==
    LET accepted == AcceptedPositions(base_encoding, images)
    IN [k \in 1..Len(accepted) |->
           MatchResult(accepted[k] - 1,
                       MinDistance(base_encoding, images[accepted[k]].faces))]

\* C13: the job of a task that found its session and has called complete_job to
\* its end has, as matches, one entry {i, d_i} for each image i that did not
\* fail, shows a face and has smallest distance d_i <= 0.7, in increasing order
\* of i; matches_found is their number and progress is 100.
C13_FinalMatches ==
    \A j \in DOMAIN bp :
        (bp[j].pc = "done" /\ jobs[j].status = "completed")
            => /\ jobs[j].matches = ExpectedMatches(bp[j].base_encoding, bp[j].images)
               /\ jobs[j].matches_found = Len(jobs[j].matches)
               /\ jobs[j].progress = 100

\* A completed batch of an image with faces at 0.9, 0.5 and 0.75 (entry with
\* 0.5) and an image whose one face is at exactly 0.7.
C13_Witness ==
    \E j \in DOMAIN bp :
        /\ bp[j].pc = "done"
        /\ jobs[j].status = "completed"
        /\ \/ /\ bp[j].base_encoding = 0
              /\ bp[j].images = << [ok |-> TRUE, faces |-> <<90, 50, 75>>], NoFaceImage >>
              /\ jobs[j].matches = << MatchResult(0, 50) >>
           \/ /\ bp[j].base_encoding = 20
              /\ bp[j].images = << NoFaceImage, [ok |-> TRUE, faces |-> <<90>>] >>
              /\ jobs[j].matches = << MatchResult(1, 70) >>

(* C14 *)

\* Every entry has an index of the batch and a distance <= 0.7, and the indexes
\* increase strictly along the list.
WellFormedMatches(matches, total_images) ==
    \A k \in DOMAIN matches :
        /\ matches[k].index \in 0..(total_images - 1)
        /\ matches[k].distance <= MatchThreshold
        /\ k > 1 => matches[k - 1].index < matches[k].index

\* C14: in every state the match list of every job, and the list its task is
\* building, has entries with distinct, strictly increasing indexes within
\* [0, total_images) and distances <= 0.7.
C14_MatchListWellFormed ==
    \A j \in DOMAIN jobs :
        /\ WellFormedMatches(jobs[j].matches, jobs[j].total_images)
        /\ j \in DOMAIN bp => WellFormedMatches(bp[j].matches, jobs[j].total_images)

\* A job has a final list of two entries, one of an image with several faces.
C14_Witness ==
    \E j \in DOMAIN jobs :
        /\ Len(jobs[j].matches) = 2
        /\ j \in DOMAIN bp
        /\ Len(bp[j].images[1].faces) > 1

(* C15 *)

\* C15: a compare-batch request made while the session it names is not in the
\* store is answered with 404, and a compare-batch request answered with 404
\* leaves the jobs and the background tasks as they were.
C15_UnknownSessionRejected ==
    [][/\ (/\ loop'.out.op = "compare_batch"
           /\ loop' # loop
           /\ \A s \in RequestSessionIds : s \notin DOMAIN sessions)
              => loop'.out.code = 404
       /\ (loop'.out = Respond("compare_batch", 404) /\ loop' # loop)
              => (jobs' = jobs /\ bp' = bp /\ sessions' = sessions)]_vars

\* A compare-batch request has just been answered with 404.
C15_Witness ==
    /\ loop.out = Respond("compare_batch", 404)
    /\ \A s \in RequestSessionIds : s \notin DOMAIN sessions
    /\ jobs = << >>

(* C16 *)

\* C16: whenever a cycle of the cleanup thread has raised, the thread starts a
\* later cycle, and cycles are started again and again for ever.
C16_CleanupNeverStops ==
    /\ (cleanup.pc = "except") ~> (cleanup.pc = "begin")
    /\ []<>(cleanup.pc = "begin")

\* A cycle has raised while the store holds a session.
C16_Witness == cleanup.pc = "except" /\ sessions # << >>

(* C17 *)

\* C17: update_progress(job_id, idx + 1, len(matches)) is called for every
\* image of the batch, so a job whose task has completed it has
\* current_image = total_images.
C17_ProgressForEveryImage ==
    \A j \in DOMAIN bp :
        (bp[j].pc = "done" /\ jobs[j].status = "completed")
            => jobs[j].current_image = jobs[j].total_images

(* C18 *)

\* C18: progress is 100 only in a job whose status is completed.
C18_HundredOnlyWhenCompleted ==
    \A j \in DOMAIN jobs :
        jobs[j].progress = 100 => jobs[j].status = "completed"

(* C19 *)

\* C19: in every state of the service a job has an error only if its status is
\* failed, and a non-empty match list only if its status is completed.
C19_ErrorAndMatchesFollowStatus ==
    \A j \in DOMAIN jobs :
        /\ jobs[j].error # "None" => jobs[j].status = "failed"
        /\ jobs[j].matches # <<>> => jobs[j].status = "completed"

\* A job has failed with its error set after its task had built a non-empty
\* list, which the job does not show.
C19_Witness ==
    \E j \in DOMAIN jobs :
        /\ jobs[j].status = "failed"
        /\ jobs[j].error = "unexpected"
        /\ j \in DOMAIN bp
        /\ bp[j].matches # <<>>
        /\ jobs[j].matches = <<>>

(* C20 *)

\* C20: in every state of the service, 0 <= matches_found <= current_image <=
\* total_images for every job, and total_images is the number of images the
\* job was created for.
C20_CountersOrdered ==
    \A j \in DOMAIN jobs :
        /\ 0 <= jobs[j].matches_found
        /\ jobs[j].matches_found <= jobs[j].current_image
        /\ jobs[j].current_image <= jobs[j].total_images
        /\ j \in DOMAIN bp => jobs[j].total_images = Len(bp[j].images)

\* Every image of a batch of two has matched and the progress call of the
\* second has written its counters.
C20_Witness ==
    \E j \in DOMAIN jobs :
        /\ jobs[j].total_images = 2
        /\ jobs[j].current_image = 2
        /\ jobs[j].matches_found = 2
        /\ jobs[j].status = "processing"

====
